---- MODULE Spec2Model ----
(***************************************************************************)
(* Model of gui_app.py: the PyQt shell (MainWindow), its four worker       *)
(* threads (KBValidateWorker, AskWorker, UploadWorker, SyncWorker) and the *)
(* queued signal delivery from the workers to the UI thread.               *)
(*                                                                         *)
(* Text is a sequence of one-character strings, so that str.strip() is      *)
(* computed and not assumed.  A log line, a notice and a signal payload is *)
(* a tuple <<tag, values...>> standing for the f-string of the source.     *)
(***************************************************************************)
EXTENDS Naturals, Sequences, FiniteSets, TLC

VARIABLES
    environ,        \* os.environ: KNOWLEDGE_BASE_ID, AWS_REGION, AWS_DEFAULT_REGION
    environ0,       \* os.environ as it was when the process started
    ed_region,      \* QLineEdit texts of the configuration group
    ed_kb,
    ed_bucket,
    ed_prefix,
    ed_prompt,      \* QPlainTextEdit of the ask tab
    cb_allow_web,   \* QCheckBox of the ask tab
    list_files,     \* QListWidget items, in order
    txt_answer,     \* read-only answer area
    txt_log,        \* read-only append-only log
    notices,        \* modal QMessageBox notices shown so far
    refs,           \* _ask_worker, _kb_worker, _upload_worker, _sync_worker
    workers,        \* every QThread object created, by creation order
    queue,          \* queued signal emissions posted to the UI thread
    emitted,        \* per worker: the signals it has emitted, in order
    delivered,      \* (worker, signal) pairs in the order the UI rendered them
    calls,          \* external calls made by workers, with what they used
    s3,             \* objects present in the object store
    clicks,         \* slot invocations so far
    edits           \* input edits so far

vars == <<environ, environ0, ed_region, ed_kb, ed_bucket, ed_prefix, ed_prompt,
          cb_allow_web, list_files, txt_answer, txt_log, notices, refs,
          workers, queue, emitted, delivered, calls, s3, clicks, edits>>

ui == <<ed_region, ed_kb, ed_bucket, ed_prefix, ed_prompt, cb_allow_web,
        list_files>>

world == <<environ, calls, s3>>

\* ------------------------------------------------------------------ bounds
MaxClicks == 2
MaxEdits == 2
MaxSelect == 3
MaxSources == 2

\* ------------------------------------------------------------------ text
None == <<"<None>">>

Whitespace == {" ", "\t", "\n"}

RECURSIVE LStrip(_)
LStrip(s) ==
    IF s # <<>> /\ Head(s) \in Whitespace THEN LStrip(Tail(s)) ELSE s

RECURSIVE RStrip(_)
RStrip(s) ==
    IF s # <<>> /\ s[Len(s)] \in Whitespace
    THEN RStrip(SubSeq(s, 1, Len(s) - 1)) ELSE s

\* Faulty variant: the text is taken as typed
StripNothing(s) == s

Strip(s) == RStrip(LStrip(s))

Truthy(v) == v # None /\ v # <<>>

Or(a, b) == IF Truthy(a) THEN a ELSE b

DefaultPrefix == <<"d", "/">>

SeqsUpTo(S, n) == UNION {[1..k -> S] : k \in 0..n}

\* ------------------------------------------------------------------ inputs
\* What the process environment holds when the program starts.
StartEnvs ==
    { [KNOWLEDGE_BASE_ID |-> None,    AWS_REGION |-> None,    AWS_DEFAULT_REGION |-> None],
      [KNOWLEDGE_BASE_ID |-> <<"a">>, AWS_REGION |-> None,    AWS_DEFAULT_REGION |-> None],
      [KNOWLEDGE_BASE_ID |-> <<"a">>, AWS_REGION |-> None,    AWS_DEFAULT_REGION |-> <<"s">>],
      [KNOWLEDGE_BASE_ID |-> None,    AWS_REGION |-> <<"r">>, AWS_DEFAULT_REGION |-> <<"s">>] }

\* What the user may type into each input.
KbTexts == { <<" ">>, <<"a">>, <<"b", " ">> }
RegionTexts == { <<>>, <<"r">>, <<" ", "s">> }
BucketTexts == { <<"\t">>, <<" ", "B">> }
PrefixTexts == { <<" ">>, <<"p", "/">> }
PromptTexts == { <<"\n", " ">>, <<"q", "\n">> }
\* The file dialog returns the first n of the files of a directory.
Selections == {[k \in 1..n |-> k] : n \in 0..MaxSelect}

\* What the knowledge-base service may answer to a health check.
Summaries ==
    { [name |-> <<"n">>, dataSourceId |-> <<"1">>],
      [name |-> None,    dataSourceId |-> <<"2">>] }
SourceLists == SeqsUpTo(Summaries, MaxSources)
Outcomes ==
    {[ok |-> TRUE, err |-> "", summaries |-> l] : l \in SourceLists}
    \cup {[ok |-> FALSE, err |-> e, summaries |-> <<>>] : e \in {"ClientError", "Exception"}}

Kinds == {"ask", "kb", "upload", "sync"}
Terminal == {"finished", "failed"}

\* ------------------------------------------------------------------ workers
KBValidateWorker(kb_id, region) ==
    [kind |-> "kb", kb_id |-> kb_id, region |-> region, pc |-> "run"]

AskWorker(kb_id, region, prompt, allow_web) ==
    [kind |-> "ask", kb_id |-> kb_id, region |-> region, prompt |-> prompt,
     allow_web |-> allow_web, pc |-> "env"]

UploadWorker(bucket, kb_id, prefix, files) ==
    [kind |-> "upload", bucket |-> bucket, kb_id |-> kb_id, prefix |-> prefix,
     files |-> files, pc |-> "init", i |-> 1, uploaded |-> <<>>]

SyncWorker(kb_id) ==
    [kind |-> "sync", kb_id |-> kb_id, pc |-> "run"]

\* A step of a worker's run(): the worker after the step, the signals it
\* emitted during it (in order), the external call it made and the objects it
\* stored.
Step(w, sigs, call, puts) == [w |-> w, sigs |-> sigs, call |-> call, puts |-> puts]

Sig(name, payload) == <<name, payload>>

\* An external call: what it was given and whether it returned or raised.
Call(kind, kb, region, tools, arg, ok) ==
    [kind |-> kind, kb |-> kb, region |-> region, tools |-> tools, arg |-> arg,
     ok |-> ok]

\* boto3.client(...) without region_name takes the region of the environment.
ClientRegion(region, env) ==
    IF Truthy(region) THEN region ELSE env.AWS_DEFAULT_REGION

\* Faulty variant: an empty data-source list leaves the section out
KBSummaryOmitsNone(kb_id, status, summaries) ==
    <<<<"[KB]", kb_id, status>>>>
    \o (IF summaries = <<>>
        THEN <<>>
        ELSE <<<<"[KB] sources:", Len(summaries)>>>>
             \o [k \in 1..Len(summaries) |->
                   <<" - ", Or(summaries[k].name, summaries[k].dataSourceId)>>])

KBSummary(kb_id, status, summaries) ==
    <<<<"[KB]", kb_id, status>>>>
    \o (IF summaries = <<>>
        THEN <<<<"[KB] sources: none">>>>
        ELSE <<<<"[KB] sources:", Len(summaries)>>>>
             \o [k \in 1..Len(summaries) |->
                   <<" - ", Or(summaries[k].name, summaries[k].dataSourceId)>>])

KBValidateRun(w, env, out) ==
    Step([w EXCEPT !.pc = "done"],
         IF out.ok
         THEN <<Sig("finished", <<"lines", KBSummary(w.kb_id, "ACTIVE", out.summaries)>>)>>
         ELSE <<Sig("failed", <<"[KB check failed]", out.err>>)>>,
         <<Call("get_knowledge_base", w.kb_id, ClientRegion(w.region, env), <<>>,
                out.summaries, out.ok)>>,
         {})

\* os.environ[...] = ... at the head of AskWorker.run
AskSetEnv(w, env) ==
    LET e1 == [env EXCEPT !.KNOWLEDGE_BASE_ID = w.kb_id]
    IN  IF Truthy(w.region)
        THEN [e1 EXCEPT !.AWS_REGION = w.region, !.AWS_DEFAULT_REGION = w.region]
        ELSE e1

\* Faulty variant: web fetch is always offered
AskToolsAlwaysWeb(allow_web) == <<"retrieve", "http_request">>

AskTools(allow_web) ==
    <<"retrieve">> \o (IF allow_web THEN <<"http_request">> ELSE <<>>)

\* The agent runtime takes the knowledge base and the region from os.environ.
AskRun(w, env, out) ==
    IF w.pc = "env"
    THEN Step([w EXCEPT !.pc = "agent"], <<>>, <<>>, {})
    ELSE Step([w EXCEPT !.pc = "done"],
              IF out.ok
              THEN <<Sig("finished", <<"answer", w.prompt, env.KNOWLEDGE_BASE_ID>>)>>
              ELSE <<Sig("failed", <<"[ask error]", out.err>>)>>,
              <<Call("agent", env.KNOWLEDGE_BASE_ID,
                     Or(env.AWS_REGION, env.AWS_DEFAULT_REGION),
                     AskTools(w.allow_web), w.prompt, out.ok)>>,
              {})

\* PDFUploader.upload_pdf: the locator of the stored object
upload_pdf(bucket, prefix, f) == <<"s3://", bucket, prefix, f>>

\* Faulty variant: the summary counts the loop index, not the uploaded list
UploadSummaryOffByOne(w) == Sig("finished", <<"total", w.i>>)

\* self.finished.emit(f"... {len(uploaded)} ...")
UploadSummary(w) == Sig("finished", <<"total", Len(w.uploaded)>>)

\* Faulty variant: the exception is caught inside the loop, which goes on
UploadOnErrorContinue(w, out, call) ==
    Step([w EXCEPT !.pc = "loop", !.i = @ + 1],
         <<Sig("failed", <<"[upload failed]", out.err>>)>>, call, {})

\* except Exception as e: self.failed.emit(...), and run() returns
UploadOnError(w, out, call) ==
    Step([w EXCEPT !.pc = "done"],
         <<Sig("failed", <<"[upload failed]", out.err>>)>>, call, {})

UploadRun(w, out) ==
    IF w.pc = "init"
    THEN IF out.ok
         THEN Step([w EXCEPT !.pc = "loop"], <<>>, <<>>, {})
         ELSE UploadOnError(w, out, <<>>)
    ELSE IF w.pc = "loop"
    THEN IF w.i <= Len(w.files)
         THEN Step([w EXCEPT !.pc = "transfer"],
                   <<Sig("progress", <<"[upload]", w.files[w.i]>>)>>, <<>>, {})
         ELSE Step([w EXCEPT !.pc = "done"], <<UploadSummary(w)>>, <<>>, {})
    ELSE LET uri == upload_pdf(w.bucket, w.prefix, w.files[w.i])
             call == Call("upload_pdf", w.kb_id, None, <<>>, w.files[w.i], out.ok)
         IN  IF out.ok
             THEN Step([w EXCEPT !.pc = "loop", !.i = @ + 1,
                                !.uploaded = Append(@, uri)],
                       <<Sig("progress", <<"[done]", uri>>)>>, <<call>>, {uri})
             ELSE UploadOnError(w, out, <<call>>)

\* Faulty variant: the success notification is emitted in a finally clause
SyncRunFinally(w, out) ==
    Step([w EXCEPT !.pc = "done"],
         IF out.ok
         THEN <<Sig("finished", <<"sync request accepted">>)>>
         ELSE <<Sig("failed", <<"[sync failed]", out.err>>),
                Sig("finished", <<"sync request accepted">>)>>,
         <<>>, {})

SyncRun(w, out) ==
    Step([w EXCEPT !.pc = "done"],
         IF out.ok
         THEN <<Sig("finished", <<"sync request accepted">>)>>
         ELSE <<Sig("failed", <<"[sync failed]", out.err>>)>>,
         <<>>, {})

Run(w, env, out) ==
    IF w.kind = "kb" THEN KBValidateRun(w, env, out)
    ELSE IF w.kind = "ask" THEN AskRun(w, env, out)
    ELSE IF w.kind = "upload" THEN UploadRun(w, out)
    ELSE SyncRun(w, out)

\* The step reads no outcome of an external call.
Silent(w) ==
    \/ w.kind = "ask" /\ w.pc = "env"
    \/ w.kind = "upload" /\ w.pc = "loop"

\* ------------------------------------------------------------------ UI thread
\* The slot connected to a worker's signal: what it writes to the displays.
\* Faulty variant: an error replaces the log instead of being appended to it
RenderErrorReplacesLog(kind, sig, payload, log, answer) ==
    IF kind = "ask" THEN [log |-> log, answer |-> payload]
    ELSE IF sig = "failed" THEN [log |-> <<payload>>, answer |-> answer]
    ELSE IF kind = "upload" /\ sig = "finished"
    THEN [log |-> Append(log, <<"[upload complete]", payload>>), answer |-> answer]
    ELSE IF kind = "sync" /\ sig = "finished"
    THEN [log |-> Append(log, <<"[sync]", payload>>), answer |-> answer]
    ELSE [log |-> Append(log, payload), answer |-> answer]

Render(kind, sig, payload, log, answer) ==
    IF kind = "ask" THEN [log |-> log, answer |-> payload]
    ELSE IF kind = "upload" /\ sig = "finished"
    THEN [log |-> Append(log, <<"[upload complete]", payload>>), answer |-> answer]
    ELSE IF kind = "sync" /\ sig = "finished"
    THEN [log |-> Append(log, <<"[sync]", payload>>), answer |-> answer]
    ELSE [log |-> Append(log, payload), answer |-> answer]

Init ==
    /\ environ0 \in StartEnvs
    /\ environ = environ0
    /\ ed_region = Or(environ0.AWS_REGION, Or(environ0.AWS_DEFAULT_REGION, <<>>))
    /\ ed_kb = Or(environ0.KNOWLEDGE_BASE_ID, <<>>)
    /\ ed_bucket = <<>>
    /\ ed_prefix = DefaultPrefix
    /\ ed_prompt = <<>>
    /\ cb_allow_web = FALSE
    /\ list_files = <<>>
    /\ txt_answer = <<>>
    /\ txt_log = <<>>
    /\ notices = <<>>
    /\ refs = [k \in Kinds |-> 0]
    /\ workers = <<>>
    /\ queue = <<>>
    /\ emitted = <<>>
    /\ delivered = <<>>
    /\ calls = <<>>
    /\ s3 = {}
    /\ clicks = 0
    /\ edits = 0

\* The user types into an input or toggles the check box.
Edit ==
    /\ edits < MaxEdits
    /\ edits' = edits + 1
    /\ \/ \E t \in KbTexts : ed_kb' = t
             /\ UNCHANGED <<ed_region, ed_bucket, ed_prefix, ed_prompt, cb_allow_web>>
       \/ \E t \in RegionTexts : ed_region' = t
             /\ UNCHANGED <<ed_kb, ed_bucket, ed_prefix, ed_prompt, cb_allow_web>>
       \/ \E t \in BucketTexts : ed_bucket' = t
             /\ UNCHANGED <<ed_kb, ed_region, ed_prefix, ed_prompt, cb_allow_web>>
       \/ \E t \in PrefixTexts : ed_prefix' = t
             /\ UNCHANGED <<ed_kb, ed_region, ed_bucket, ed_prompt, cb_allow_web>>
       \/ \E t \in PromptTexts : ed_prompt' = t
             /\ UNCHANGED <<ed_kb, ed_region, ed_bucket, ed_prefix, cb_allow_web>>
       \/ cb_allow_web' = ~cb_allow_web
             /\ UNCHANGED <<ed_kb, ed_region, ed_bucket, ed_prefix, ed_prompt>>
    /\ UNCHANGED <<list_files, txt_answer, txt_log, notices, refs, workers, queue,
                   emitted, delivered, world, environ0, clicks>>

Click == clicks < MaxClicks /\ clicks' = clicks + 1

Notice(kind, text) ==
    /\ notices' = Append(notices, <<kind, text>>)
    /\ UNCHANGED <<txt_answer, txt_log, refs, workers, emitted>>

\* Faulty variant: a click is dropped while any worker is still running
StartWhenIdle(kind, w) ==
    IF \E i \in 1..Len(workers) : workers[i].pc # "done"
    THEN UNCHANGED <<workers, emitted, refs, notices>>
    ELSE /\ workers' = Append(workers, w)
         /\ emitted' = Append(emitted, <<>>)
         /\ refs' = [refs EXCEPT ![kind] = Len(workers) + 1]
         /\ UNCHANGED notices

\* Faulty variant: the worker the reference held is stopped before it is replaced
StartCancelsPrevious(kind, w) ==
    /\ workers' = Append(IF refs[kind] = 0 THEN workers
                         ELSE [workers EXCEPT ![refs[kind]].pc = "done"], w)
    /\ emitted' = Append(emitted, <<>>)
    /\ refs' = [refs EXCEPT ![kind] = Len(workers) + 1]
    /\ UNCHANGED notices

\* self._x_worker = XWorker(...); connect; start()
Start(kind, w) ==
    /\ workers' = Append(workers, w)
    /\ emitted' = Append(emitted, <<>>)
    /\ refs' = [refs EXCEPT ![kind] = Len(workers) + 1]
    /\ UNCHANGED notices

on_validate_kb ==
    /\ Click
    /\ LET kb_id == Strip(ed_kb)
           region == Or(Strip(ed_region), None)
       IN  IF ~Truthy(kb_id)
           THEN Notice("warning", "enter the Knowledge Base ID")
           ELSE /\ txt_log' = Append(txt_log,
                        <<"[check]", kb_id, Or(region, <<"(default)">>)>>)
                /\ Start("kb", KBValidateWorker(kb_id, region))
                /\ UNCHANGED txt_answer
    /\ UNCHANGED <<ui, queue, delivered, world, environ0, edits>>

on_ask ==
    /\ Click
    /\ LET kb_id == Strip(ed_kb)
           region == Or(Strip(ed_region), None)
           prompt == Strip(ed_prompt)
           allow_web == cb_allow_web
       IN  IF ~Truthy(kb_id)
           THEN Notice("warning", "enter the Knowledge Base ID")
           ELSE IF ~Truthy(prompt)
           THEN Notice("information", "enter a question")
           ELSE /\ txt_answer' = <<"thinking...">>
                /\ Start("ask", AskWorker(kb_id, region, prompt, allow_web))
                /\ UNCHANGED txt_log
    /\ UNCHANGED <<ui, queue, delivered, world, environ0, edits>>

on_add_files ==
    /\ Click
    /\ \E files \in Selections :
         /\ list_files' = list_files \o files
         /\ txt_log' = IF files # <<>>
                       THEN Append(txt_log, <<"[select] added", Len(files)>>)
                       ELSE txt_log
    /\ UNCHANGED <<ed_region, ed_kb, ed_bucket, ed_prefix, ed_prompt, cb_allow_web,
                   txt_answer, notices, refs, workers, queue, emitted, delivered,
                   world, environ0, edits>>

on_clear_files ==
    /\ Click
    /\ list_files' = <<>>
    /\ txt_log' = Append(txt_log, <<"[select] cleared">>)
    /\ UNCHANGED <<ed_region, ed_kb, ed_bucket, ed_prefix, ed_prompt, cb_allow_web,
                   txt_answer, notices, refs, workers, queue, emitted, delivered,
                   world, environ0, edits>>

on_upload_files ==
    /\ Click
    /\ LET bucket == Strip(ed_bucket)
           kb_id == Or(Strip(ed_kb), None)
           prefix == Or(Strip(ed_prefix), DefaultPrefix)
           files == list_files
       IN  IF ~Truthy(bucket)
           THEN Notice("warning", "enter the S3 Bucket")
           ELSE IF files = <<>>
           THEN Notice("information", "add PDF files to upload")
           ELSE /\ txt_log' = Append(txt_log,
                        <<"[upload start]", Len(files), bucket, prefix>>)
                /\ Start("upload", UploadWorker(bucket, kb_id, prefix, files))
                /\ UNCHANGED txt_answer
    /\ UNCHANGED <<ui, queue, delivered, world, environ0, edits>>

on_sync_kb ==
    /\ Click
    /\ LET kb_id == Strip(ed_kb)
       IN  IF ~Truthy(kb_id)
           THEN Notice("warning", "enter the Knowledge Base ID")
           ELSE /\ txt_log' = Append(txt_log, <<"[sync request]", kb_id>>)
                /\ Start("sync", SyncWorker(kb_id))
                /\ UNCHANGED txt_answer
    /\ UNCHANGED <<ui, queue, delivered, world, environ0, edits>>

\* One step of worker i's thread.
WorkerStep(i) ==
    /\ i <= Len(workers)
    /\ workers[i].pc # "done"
    /\ \E out \in (IF Silent(workers[i]) THEN {CHOOSE o \in Outcomes : TRUE}
                   ELSE IF workers[i].kind = "kb" THEN Outcomes
                   ELSE {o \in Outcomes : o.summaries = <<>>}) :
         LET env == IF workers[i].kind = "ask" /\ workers[i].pc = "env"
                    THEN AskSetEnv(workers[i], environ) ELSE environ
             st == Run(workers[i], env, out)
         IN  /\ environ' = env
             /\ workers' = [workers EXCEPT ![i] = st.w]
             /\ emitted' = [emitted EXCEPT ![i] = @ \o st.sigs]
             /\ queue' = queue \o [k \in 1..Len(st.sigs) |-> <<i, st.sigs[k]>>]
             /\ calls' = calls \o [k \in 1..Len(st.call) |->
                                     [wid |-> i] @@ st.call[k]]
             /\ s3' = s3 \cup st.puts
    /\ UNCHANGED <<ui, txt_answer, txt_log, notices, refs, delivered, environ0,
                   clicks, edits>>

\* The UI thread's event loop takes the oldest queued emission and runs its slot.
Deliver ==
    /\ queue # <<>>
    /\ LET i == Head(queue)[1]
           sig == Head(queue)[2]
           r == Render(workers[i].kind, sig[1], sig[2], txt_log, txt_answer)
       IN  /\ txt_log' = r.log
           /\ txt_answer' = r.answer
           /\ delivered' = Append(delivered, <<i, sig[1]>>)
    /\ queue' = Tail(queue)
    /\ UNCHANGED <<ui, notices, refs, workers, emitted, world, environ0, clicks,
                   edits>>

Next ==
    \/ Edit
    \/ on_validate_kb
    \/ on_ask
    \/ on_add_files
    \/ on_clear_files
    \/ on_upload_files
    \/ on_sync_kb
    \/ \E i \in 1..MaxClicks : WorkerStep(i)
    \/ Deliver

Spec == Init /\ [][Next]_vars

\* The program started with KNOWLEDGE_BASE_ID set in its environment and no
\* region.
LiveInit ==
    /\ Init
    /\ Truthy(environ0.KNOWLEDGE_BASE_ID)
    /\ ~Truthy(environ0.AWS_DEFAULT_REGION)

\* Every started thread is scheduled, and the UI thread's event loop runs.
LiveSpec ==
    /\ LiveInit
    /\ [][Next]_vars
    /\ \A i \in 1..MaxClicks : WF_vars(WorkerStep(i))
    /\ WF_vars(Deliver)

\* ------------------------------------------------------------------ claims
\* A text with nothing but whitespace in it (the empty text included).
Blank(s) == \A k \in 1..Len(s) : s[k] \in Whitespace

WorkerIds == 1..Len(workers)

\* The slot refused: a modal notice, and nothing else.
Refused ==
    /\ workers' = workers
    /\ refs' = refs
    /\ emitted' = emitted
    /\ queue' = queue
    /\ txt_log' = txt_log
    /\ txt_answer' = txt_answer
    /\ Len(notices') = Len(notices) + 1

\* The slot started exactly one worker thread, which has not run yet.
Dispatched(kind) ==
    /\ Len(workers') = Len(workers) + 1
    /\ SubSeq(workers', 1, Len(workers)) = workers
    /\ workers'[Len(workers')].kind = kind
    /\ refs'[kind] = Len(workers')
    /\ emitted'[Len(workers')] = <<>>
    /\ notices' = notices

MissingValidate == Blank(ed_kb)
MissingAsk == Blank(ed_kb) \/ Blank(ed_prompt)
MissingUpload == Blank(ed_bucket) \/ list_files = <<>>
MissingSync == Blank(ed_kb)

\* C1: a dispatch action invoked with a required field empty after trimming
\* (knowledge-base id for validate, ask and sync; question for ask; bucket and
\* a non-empty file list for upload) creates and starts no worker, shows a
\* modal notice, and writes neither a log line nor the answer placeholder.
C1_MissingInputRefused ==
    [][ /\ (on_validate_kb /\ MissingValidate => Refused)
        /\ (on_ask /\ MissingAsk => Refused)
        /\ (on_upload_files /\ MissingUpload => Refused)
        /\ (on_sync_kb /\ MissingSync => Refused) ]_vars

C1_Witness ==
    /\ Len(notices) = 2
    /\ notices[1] = <<"warning", "enter the Knowledge Base ID">>
    /\ notices[2] = <<"information", "add PDF files to upload">>
    /\ ed_kb = <<" ">>
    /\ Strip(ed_bucket) = <<"B">>
    /\ workers = <<>>
    /\ txt_log = <<>>
    /\ txt_answer = <<>>

\* The upload_pdf calls worker i has made, in order.
Transfers(i) == SelectSeq(calls, LAMBDA c : c.wid = i /\ c.kind = "upload_pdf")

StartOf(w, k) == Sig("progress", <<"[upload]", w.files[k]>>)
CompleteOf(w, k) ==
    Sig("progress", <<"[done]", <<"s3://", w.bucket, w.prefix, w.files[k]>>>>)

\* start(1), complete(1), ..., start(n), complete(n)
Alternating(w, n) ==
    [k \in 1..(2 * n) |->
        IF k % 2 = 1 THEN StartOf(w, (k + 1) \div 2) ELSE CompleteOf(w, k \div 2)]

AllTransferred(i) ==
    /\ workers[i].kind = "upload"
    /\ workers[i].pc = "done"
    /\ Len(Transfers(i)) = Len(workers[i].files)
    /\ \A k \in 1..Len(Transfers(i)) : Transfers(i)[k].ok

\* C2: an upload of N files whose transfers all succeed emits exactly 2N
\* progress notifications, start(i) then complete(i) for i = 1..N in list
\* order, then one finished notification reporting N, and no failed one.
C2_UploadSuccessNotifications ==
    \A i \in WorkerIds :
        AllTransferred(i) =>
            LET w == workers[i]
                n == Len(w.files)
            IN  emitted[i] = Alternating(w, n) \o <<Sig("finished", <<"total", n>>)>>

C2_Witness ==
    \E i \in WorkerIds :
        /\ AllTransferred(i)
        /\ Len(workers[i].files) = 3
        /\ Len(emitted[i]) = 7
        /\ queue = <<>>

\* The first transfer of worker i that failed (0: none has).
FirstFailed(i) ==
    LET t == Transfers(i)
        bad == {k \in 1..Len(t) : ~t[k].ok}
    IN  IF bad = {} THEN 0 ELSE CHOOSE k \in bad : \A j \in bad : k <= j

\* C3: when the transfer of file k is the first to fail, the worker has
\* emitted start and complete for files 1..k-1, start alone for file k, then
\* one failed notification and nothing after it; it attempts no transfer of
\* files k+1..N, emits no finished notification, and the k-1 objects already
\* stored stay stored.
C3_UploadFailureNotifications ==
    \A i \in WorkerIds :
        FirstFailed(i) # 0 =>
            LET w == workers[i]
                k == FirstFailed(i)
                e == emitted[i]
            IN  /\ w.pc = "done"
                /\ Len(Transfers(i)) = k
                /\ \A j \in 1..k : Transfers(i)[j].arg = w.files[j]
                /\ Len(e) = 2 * k
                /\ SubSeq(e, 1, 2 * (k - 1)) = Alternating(w, k - 1)
                /\ e[2 * k - 1] = StartOf(w, k)
                /\ e[2 * k][1] = "failed"
                /\ \A j \in 1..Len(e) : e[j][1] # "finished"
                /\ \A j \in 1..(k - 1) :
                       <<"s3://", w.bucket, w.prefix, w.files[j]>> \in s3

C3_Witness ==
    \E i \in WorkerIds :
        /\ FirstFailed(i) = 2
        /\ Len(workers[i].files) = 3
        /\ Len(delivered) = 4

\* The calls of the given kind, in order.
CallsOf(kind) == SelectSeq(calls, LAMBDA c : c.kind = kind)

Range(f) == {f[k] : k \in DOMAIN f}

\* C7: the tool list an ask gives the agent always contains knowledge-base
\* retrieval, contains web fetch exactly when the allow-web flag captured at
\* dispatch is true, and contains nothing else.
C7_ToolsFollowFlag ==
    \A k \in 1..Len(CallsOf("agent")) :
        LET c == CallsOf("agent")[k]
        IN  /\ "retrieve" \in Range(c.tools)
            /\ "http_request" \in Range(c.tools) <=> workers[c.wid].allow_web
            /\ Range(c.tools) \subseteq {"retrieve", "http_request"}

C7_Witness ==
    /\ \E k \in 1..Len(CallsOf("agent")) :
          /\ workers[CallsOf("agent")[k].wid].allow_web
          /\ CallsOf("agent")[k].ok
    /\ txt_answer[1] = "answer"

\* The name shown for a data source: its name, or its id when it has none.
ShownName(src) == IF src.name \in {None, <<>>} THEN src.dataSourceId ELSE src.name

\* C9: the summary of a successful health check always has a data-source
\* section: an explicit "none" line and no per-source line when the service
\* lists no data source, and otherwise the count n followed by exactly n name
\* lines in the order the service returned them.
C9_SummaryHasSourceSection ==
    \A k \in 1..Len(CallsOf("get_knowledge_base")) :
        LET c == CallsOf("get_knowledge_base")[k]
            n == Len(c.arg)
        IN  c.ok =>
              /\ Len(emitted[c.wid]) = 1
              /\ emitted[c.wid][1][1] = "finished"
              /\ LET msg == emitted[c.wid][1][2][2]
                 IN  /\ Len(msg) = (IF n = 0 THEN 2 ELSE 2 + n)
                     /\ msg[1][1] = "[KB]"
                     /\ msg[2] = (IF n = 0 THEN <<"[KB] sources: none">>
                                  ELSE <<"[KB] sources:", n>>)
                     /\ \A j \in 1..n : msg[2 + j] = <<" - ", ShownName(c.arg[j])>>

C9_WitnessNone ==
    \E k \in 1..Len(CallsOf("get_knowledge_base")) :
        /\ CallsOf("get_knowledge_base")[k].ok
        /\ CallsOf("get_knowledge_base")[k].arg = <<>>
        /\ Len(txt_log) = 2
        /\ txt_log[2][1] = "lines"
        /\ Len(txt_log[2][2]) = 2

\* The places of the terminal notifications among those worker i has emitted.
Terminals(i) == {k \in 1..Len(emitted[i]) : emitted[i][k][1] \in Terminal}

OneTerminalLast ==
    \A i \in WorkerIds :
        /\ Cardinality(Terminals(i)) <= 1
        /\ Terminals(i) \subseteq {Len(emitted[i])}
        /\ workers[i].pc = "done" <=> Terminals(i) # {}

\* A worker is created by a slot only, one at a time, and a worker that has
\* ended is never run again.
NoRerun ==
    /\ Len(workers') \in {Len(workers), Len(workers) + 1}
    /\ Len(workers') = Len(workers) + 1 => clicks' = clicks + 1
    /\ \A i \in WorkerIds :
          workers[i].pc = "done" => workers'[i] = workers[i] /\ emitted'[i] = emitted[i]

GuardedDispatch ==
    /\ (on_validate_kb /\ ~MissingValidate => Dispatched("kb"))
    /\ (on_ask /\ ~MissingAsk => Dispatched("ask"))
    /\ (on_upload_files /\ ~MissingUpload => Dispatched("upload"))
    /\ (on_sync_kb /\ ~MissingSync => Dispatched("sync"))

\* C10: a dispatch that passes its guard starts exactly one worker; every
\* worker run emits at most one terminal notification (finished or failed,
\* never both), as its last notification, and has emitted it exactly when it
\* has ended; nothing runs a worker again.
C10_OneTerminalPerRun ==
    []OneTerminalLast /\ [][NoRerun /\ GuardedDispatch]_vars

C10_Witness ==
    \E i \in WorkerIds :
        /\ workers[i].kind = "upload"
        /\ workers[i].pc = "done"
        /\ Len(emitted[i]) = 6
        /\ \A k \in 1..5 : emitted[i][k][1] = "progress"
        /\ emitted[i][6][1] = "failed"
        /\ Len(delivered) = 6

\* Some failure has been rendered.
AfterFailure == \E k \in 1..Len(delivered) : delivered[k][2] = "failed"

\* Rendering the oldest queued notification writes its text and nothing else.
OnlyText ==
    LET i == Head(queue)[1]
        payload == Head(queue)[2][2]
    IN  /\ IF workers[i].kind = "ask"
           THEN txt_answer' = payload /\ txt_log' = txt_log
           ELSE txt_log' = Append(txt_log, payload) /\ txt_answer' = txt_answer
        /\ UNCHANGED <<ui, notices, refs, workers, emitted, world, clicks, edits>>

\* C8: rendering a failed notification changes the displayed text only, and
\* after any failure each of the four dispatch actions is accepted or refused
\* by its required-field guard exactly as before.
C8_UsableAfterFailure ==
    [][ /\ (queue # <<>> /\ Head(queue)[2][1] = "failed" /\ Deliver => OnlyText)
        /\ (AfterFailure => GuardedDispatch)
        /\ (AfterFailure /\ on_validate_kb /\ MissingValidate => Refused)
        /\ (AfterFailure /\ on_ask /\ MissingAsk => Refused)
        /\ (AfterFailure /\ on_upload_files /\ MissingUpload => Refused)
        /\ (AfterFailure /\ on_sync_kb /\ MissingSync => Refused) ]_vars

C8_Witness ==
    /\ Len(txt_log) = 4
    /\ txt_log[2][1] = "[sync failed]"
    /\ txt_log[3][1] = "[check]"
    /\ txt_log[4][1] = "[KB check failed]"
    /\ Len(workers) = 2

\* The region an operation gets when none was typed: the one the environment
\* held when the program started.
StartRegion(kind) ==
    IF kind = "agent" THEN Or(environ0.AWS_REGION, environ0.AWS_DEFAULT_REGION)
    ELSE environ0.AWS_DEFAULT_REGION

\* C5 (as claimed): every external call of an operation uses the
\* knowledge-base id and the region captured for its worker at dispatch (the
\* start-up default when no region was typed), whatever other operations are
\* running or have run.
C5_CapturedValuesOnly ==
    \A k \in 1..Len(calls) :
        LET c == calls[k]
            w == workers[c.wid]
        IN  c.kind \in {"agent", "get_knowledge_base"} =>
              /\ c.kb = w.kb_id
              /\ c.region = (IF Truthy(w.region) THEN w.region ELSE StartRegion(c.kind))

\* The UI has rendered worker i's terminal notification.
TerminalDelivered(i) ==
    \E k \in 1..Len(delivered) : delivered[k][1] = i /\ delivered[k][2] \in Terminal

Running(i) == i \in WorkerIds /\ workers[i].pc # "done"

Both(i, j) == i < j /\ j \in WorkerIds

\* C4: with a worker of another kind still running, a dispatch that passes its
\* guard is accepted at once; every slot and the rendering of a queued
\* notification are enabled whatever the workers' states; and when two
\* operations of different kinds have been dispatched and the threads are
\* scheduled, the terminal notification of both is eventually rendered.
C4_DifferentKindsBothComplete ==
    /\ [][(\E i \in WorkerIds : Running(i)) => GuardedDispatch]_vars
    /\ [](clicks < MaxClicks =>
            /\ ENABLED on_validate_kb /\ ENABLED on_ask
            /\ ENABLED on_upload_files /\ ENABLED on_sync_kb)
    /\ [](queue # <<>> => ENABLED Deliver)
    /\ \A i, j \in 1..MaxClicks :
          (Both(i, j) /\ workers[i].kind # workers[j].kind)
              ~> (TerminalDelivered(i) /\ TerminalDelivered(j))

C4_Witness ==
    /\ Len(workers) = 2
    /\ workers[1].kind = "ask" /\ workers[2].kind = "kb"
    /\ delivered = <<<<2, "finished">>, <<1, "failed">>>>
    /\ txt_answer = emitted[1][1][2]
    /\ txt_log[2] = emitted[2][1][2]

\* The newest worker of a kind (0: none yet).
Latest(kind) ==
    LET ids == {i \in WorkerIds : workers[i].kind = kind}
    IN  IF ids = {} THEN 0 ELSE CHOOSE i \in ids : \A j \in ids : j <= i

====
